---- MODULE Spec2Model ----
(***************************************************************************)
(* Model of examples/qm9/qm9_dataset_exploration.ipynb: a kernel that runs *)
(* the notebook's code cells one at a time, the names the cells bind, the  *)
(* files they write, and the library calls they make.                      *)
(*                                                                         *)
(* Strings the code treats as text (SMILES, SVG) are sequences of tokens,  *)
(* so that parsing and replacing are computed and not assumed.             *)
(* Python positions are 0-based; TLA+ sequences are 1-based: GetItem does  *)
(* the shift.                                                              *)
(***************************************************************************)
EXTENDS Integers, Sequences, FiniteSets, TLC

\* ------------------------------------------------------------------ bounds
\* The raw table holds at most MaxRecords rows (QM9 holds 133885).
MaxRecords == 3

\* The position the notebook inspects and exports (7777 of 133885 in the
\* notebook), scaled to the size of the modelled table.
InspectIndex == 1

\* ------------------------------------------------------------ small helpers
Range(s) == {s[i] : i \in 1..Len(s)}

Max(a, b) == IF a >= b THEN a ELSE b

\* Position of x in the sequence s, 0 when absent.
Pos(s, x) == IF \E i \in 1..Len(s) : s[i] = x
               THEN CHOOSE i \in 1..Len(s) : s[i] = x /\ \A j \in 1..(i-1) : s[j] # x
               ELSE 0

\* Python's seq[i] for i >= 0: the caller guards with InRange.
InRange(s, i) == i >= 0 /\ i < Len(s)

GetItem(s, i) == s[i + 1]

\* --------------------------------------------------------------- label names
\* The list datasets.get_qm9_label_names() returns.
get_qm9_label_names ==
    <<"A", "B", "C", "mu", "alpha", "homo", "lumo", "gap", "r2", "zpve",
      "U0", "U", "H", "G", "Cv">>

\* ------------------------------------------------------------------- SMILES
\* Bond categories in the order of the adjacency stack.
SINGLE == 1
DOUBLE == 2
TRIPLE == 3
AROMATIC == 4
NumBondTypes == 4

AtomicNumber == [t \in {"C", "N", "O", "c"} |-> CASE t = "N" -> 7 [] t = "O" -> 8 [] OTHER -> 6]

IsAromaticAtom(t) == t = "c"

ParseStart ==
    [atoms |-> <<>>, arom |-> <<>>, bonds |-> {}, prev |-> 0, stack |-> <<>>,
     pend |-> 0, rings |-> {}, ok |-> TRUE]

\* The category of a bond written without a bond symbol.
DefaultBond(acc, i, j) == IF acc.arom[i] /\ acc.arom[j] THEN AROMATIC ELSE SINGLE

\* One token of a SMILES string: an atom, a bond symbol, a branch or a ring
\* closure digit.
ParseToken(acc, t) ==
    IF ~acc.ok THEN acc
    ELSE IF t \in DOMAIN AtomicNumber THEN
        LET n == Len(acc.atoms) + 1
            withAtom == [acc EXCEPT !.atoms = Append(@, AtomicNumber[t]),
                                    !.arom = Append(@, IsAromaticAtom(t)),
                                    !.prev = n, !.pend = 0]
            kind == IF acc.pend # 0 THEN acc.pend
                    ELSE DefaultBond(withAtom, acc.prev, n)
        IN  IF acc.prev = 0 THEN withAtom
            ELSE [withAtom EXCEPT !.bonds = @ \cup {<<acc.prev, n, kind>>}]
    ELSE IF t = "=" THEN [acc EXCEPT !.pend = DOUBLE, !.ok = acc.prev # 0]
    ELSE IF t = "#" THEN [acc EXCEPT !.pend = TRIPLE, !.ok = acc.prev # 0]
    ELSE IF t = "(" THEN [acc EXCEPT !.stack = Append(@, acc.prev), !.ok = acc.prev # 0]
    ELSE IF t = ")" THEN
        IF acc.stack = <<>> THEN [acc EXCEPT !.ok = FALSE]
        ELSE [acc EXCEPT !.prev = acc.stack[Len(acc.stack)],
                         !.stack = SubSeq(@, 1, Len(@) - 1)]
    ELSE IF t \in {"1", "2"} THEN
        IF acc.prev = 0 THEN [acc EXCEPT !.ok = FALSE]
        ELSE IF \E r \in acc.rings : r[1] = t THEN
            LET r == CHOOSE r \in acc.rings : r[1] = t
                kind == IF r[3] # 0 THEN r[3]
                        ELSE IF acc.pend # 0 THEN acc.pend
                        ELSE DefaultBond(acc, r[2], acc.prev)
            IN  [acc EXCEPT !.bonds = @ \cup {<<r[2], acc.prev, kind>>},
                            !.rings = @ \ {r}, !.pend = 0,
                            !.ok = r[2] # acc.prev]
        ELSE [acc EXCEPT !.rings = @ \cup {<<t, acc.prev, acc.pend>>}, !.pend = 0]
    ELSE [acc EXCEPT !.ok = FALSE]

RECURSIVE ParseSmiles(_, _)
ParseSmiles(acc, s) ==
    IF s = <<>> THEN acc ELSE ParseSmiles(ParseToken(acc, Head(s)), Tail(s))

\* The molecule handle Chem.MolFromSmiles returns; valid = FALSE is None.
NoneMol == [valid |-> FALSE, smiles |-> <<>>, atoms |-> <<>>, bonds |-> {}, nconf |-> 0]

MolFromSmiles(s) ==
    LET p == ParseSmiles(ParseStart, s)
    IN  IF p.ok /\ p.atoms # <<>> /\ p.stack = <<>> /\ p.rings = {} /\ p.pend = 0
          THEN [valid |-> TRUE, smiles |-> s, atoms |-> p.atoms, bonds |-> p.bonds,
                nconf |-> 0]
          ELSE NoneMol

\* ------------------------------------------------------------ preprocessing
\* The edge matrices padded by one row and one column of zeros.
construct_padded_edge_matrix(mol) ==
    LET N == Len(mol.atoms)
    IN  [k \in 1..4 |->
           [i \in 1..(N + 1) |->
              [j \in 1..(N + 1) |->
                 IF <<i, j, k>> \in mol.bonds \/ <<j, i, k>> \in mol.bonds
                   THEN 1 ELSE 0]]]

\* The feature tuple GGNNPreprocessor extracts from a molecule: the atomic
\* numbers, and one N x N matrix per bond category holding 1 at [i][j] and
\* [j][i] for every bond (i, j) of that category and 0 elsewhere.
construct_discrete_edge_matrix(mol) ==
    LET N == Len(mol.atoms)
    IN  [k \in 1..NumBondTypes |->
           [i \in 1..N |->
              [j \in 1..N |->
                 IF <<i, j, k>> \in mol.bonds \/ <<j, i, k>> \in mol.bonds
                   THEN 1 ELSE 0]]]

\* The label vector of a row: one value per requested name, in that order.
\* labels = None asks for every name of get_qm9_label_names.
None == <<>>

LabelNames(labels) == IF labels = None THEN get_qm9_label_names ELSE labels

LabelVector(row, labels) ==
    [i \in 1..Len(LabelNames(labels)) |-> row.props[LabelNames(labels)[i]]]

get_input_features(mol, row, labels) ==
    [atom |-> mol.atoms,
     adj |-> construct_discrete_edge_matrix(mol),
     labels |-> LabelVector(row, labels)]

\* The parser's running state while get_qm9 walks the raw table.
ParseIdle ==
    [busy |-> FALSE, cursor |-> 0, feats |-> <<>>, smiles |-> <<>>,
     fail |-> 0, success |-> 0]

\* ParseRow keeping the SMILES of a row that failed.
ParseRowKeepsSmiles(p, row, labels) ==
    LET m == MolFromSmiles(row.smiles)
    IN  IF ~m.valid
          THEN [p EXCEPT !.cursor = @ + 1, !.fail = @ + 1,
                         !.smiles = Append(@, row.smiles)]
          ELSE [p EXCEPT !.cursor = @ + 1, !.success = @ + 1,
                         !.feats = Append(@, get_input_features(m, row, labels)),
                         !.smiles = Append(@, row.smiles)]

\* ParseRow skipping a row that failed without counting it.
ParseRowDropsFailure(p, row, labels) ==
    LET m == MolFromSmiles(row.smiles)
    IN  IF ~m.valid
          THEN [p EXCEPT !.cursor = @ + 1]
          ELSE [p EXCEPT !.cursor = @ + 1, !.success = @ + 1,
                         !.feats = Append(@, get_input_features(m, row, labels)),
                         !.smiles = Append(@, row.smiles)]

\* One row of the table: a row whose SMILES does not parse counts as a
\* failure and leaves nothing behind; any other row counts as a success and
\* appends its tuple and its SMILES.
ParseRow(p, row, labels) ==
    LET m == MolFromSmiles(row.smiles)
    IN  IF ~m.valid
          THEN [p EXCEPT !.cursor = @ + 1, !.fail = @ + 1]
          ELSE [p EXCEPT !.cursor = @ + 1, !.success = @ + 1,
                         !.feats = Append(@, get_input_features(m, row, labels)),
                         !.smiles = Append(@, row.smiles)]

\* What get_qm9 hands back: the tuples, and the SMILES when asked for.
Qm9Result(p, return_smiles) ==
    [dataset |-> p.feats,
     smiles |-> IF return_smiles THEN p.smiles ELSE <<>>]

\* ------------------------------------------------------------------ drawing
\* Chem.Mol(mol.ToBinary()): a second handle holding what mol holds, its
\* conformers included.
CopyMol(mol) == mol

\* The aromatic bonds of a molecule and its atoms that lie on one.
AromaticBonds(mc) == {b \in mc.bonds : b[3] = AROMATIC}

AromaticAtoms(mc) == {b[1] : b \in AromaticBonds(mc)} \cup {b[2] : b \in AromaticBonds(mc)}

\* A choice of aromatic bonds to draw double: every aromatic atom on exactly
\* one of them.
IsKekuleChoice(mc, D) ==
    \A a \in AromaticAtoms(mc) : Cardinality({b \in D : b[1] = a \/ b[2] = a}) = 1

CanKekulize(mc) == \E D \in SUBSET AromaticBonds(mc) : IsKekuleChoice(mc, D)

\* Chem.Kekulize: aromatic bonds become alternating double and single bonds.
Kekulize(mc) ==
    LET D == CHOOSE D \in SUBSET AromaticBonds(mc) : IsKekuleChoice(mc, D)
    IN  [mc EXCEPT !.bonds =
            {b \in mc.bonds : b[3] # AROMATIC}
            \cup {<<b[1], b[2], DOUBLE>> : b \in D}
            \cup {<<b[1], b[2], SINGLE>> : b \in AromaticBonds(mc) \ D}]

Digit == <<"1", "2", "3", "4", "5", "6", "7", "8", "9">>

BondSym == <<"-", "=", "#", ":">>

SizeText(n) == CASE n = 450 -> "450" [] n = 150 -> "150" [] n = 600 -> "600" [] OTHER -> "0"

SvgPrefix == <<"s", "v", "g", ":">>

\* The text of one drawn bond.
PathText(b) == <<"<">> \o SvgPrefix \o <<"path", Digit[b[1]], Digit[b[2]], BondSym[b[3]], "/>">>

RECURSIVE PathsFrom(_, _, _)
PathsFrom(mc, i, j) ==
    IF i > Len(mc.atoms) THEN <<>>
    ELSE IF j > Len(mc.atoms) THEN PathsFrom(mc, i + 1, i + 2)
    ELSE (IF \E k \in 1..NumBondTypes : <<i, j, k>> \in mc.bonds
            THEN PathText(<<i, j, CHOOSE k \in 1..NumBondTypes : <<i, j, k>> \in mc.bonds>>)
            ELSE <<>>)
         \o PathsFrom(mc, i, j + 1)

\* drawer.GetDrawingText() after DrawMolecule(mc) on a canvas of molSize.
GetDrawingText(mc, molSize) ==
    <<"<">> \o SvgPrefix \o <<"s", "v", "g", SizeText(molSize[1]), SizeText(molSize[2]), ">">>
    \o PathsFrom(mc, 1, 2)
    \o <<"</">> \o SvgPrefix \o <<"s", "v", "g", ">">>

\* moltosvg without its try/except: Chem.Kekulize(mc) stands alone.
moltosvg_no_except(mol, molSize, kekulize, kf) ==
    IF ~mol.valid
      THEN [calls |-> <<"mol.ToBinary">>, raised |-> "AttributeError",
            threw |-> <<"mol.ToBinary">>, ret |-> <<>>]
    ELSE
      LET mc0 == CopyMol(mol)
          kekRaises == mol.smiles \in kf \/ ~CanKekulize(mc0)
          mc1 == IF kekulize THEN Kekulize(mc0) ELSE mc0
          needCoords == mc1.nconf = 0
          mc2 == IF needCoords THEN [mc1 EXCEPT !.nconf = 1] ELSE mc1
          c1 == <<"mol.ToBinary", "Chem.Mol">>
                \o (IF kekulize THEN <<"Chem.Kekulize">> ELSE <<>>)
          c2 == c1 \o <<"mc.GetNumConformers">>
                \o (IF needCoords THEN <<"rdDepictor.Compute2DCoords">> ELSE <<>>)
                \o <<"rdMolDraw2D.MolDraw2DSVG", "drawer.DrawMolecule",
                     "drawer.FinishDrawing", "drawer.GetDrawingText">>
      IN  IF kekulize /\ kekRaises
            THEN [calls |-> c1, raised |-> "KekulizeException",
                  threw |-> <<"Chem.Kekulize">>, ret |-> <<>>]
            ELSE [calls |-> c2, raised |-> "", threw |-> <<>>,
                  ret |-> GetDrawingText(mc2, molSize)]

\* def moltosvg(mol, molSize=(450,150), kekulize=True).  kf is the set of
\* SMILES on which Chem.Kekulize raises.  The result names the library calls
\* made, those of them that threw, the exception that left the function (""
\* when none did), and the text returned.
moltosvg(mol, molSize, kekulize, kf) ==
    IF ~mol.valid
      THEN [calls |-> <<"mol.ToBinary">>, raised |-> "AttributeError",
            threw |-> <<"mol.ToBinary">>, ret |-> <<>>]
    ELSE
      LET mc0 == CopyMol(mol)
          kekRaises == mol.smiles \in kf \/ ~CanKekulize(mc0)
          mc1 == IF ~kekulize THEN mc0
                 ELSE IF kekRaises THEN CopyMol(mol)
                 ELSE Kekulize(mc0)
          c1 == <<"mol.ToBinary", "Chem.Mol">>
                \o (IF kekulize THEN <<"Chem.Kekulize">> ELSE <<>>)
                \o (IF kekulize /\ kekRaises THEN <<"mol.ToBinary", "Chem.Mol">> ELSE <<>>)
          needCoords == mc1.nconf = 0
          mc2 == IF needCoords THEN [mc1 EXCEPT !.nconf = 1] ELSE mc1
          c2 == c1 \o <<"mc.GetNumConformers">>
                \o (IF needCoords THEN <<"rdDepictor.Compute2DCoords">> ELSE <<>>)
                \o <<"rdMolDraw2D.MolDraw2DSVG", "drawer.DrawMolecule",
                     "drawer.FinishDrawing", "drawer.GetDrawingText">>
      IN  [calls |-> c2, raised |-> "",
           threw |-> IF kekulize /\ kekRaises THEN <<"Chem.Kekulize">> ELSE <<>>,
           ret |-> GetDrawingText(mc2, molSize)]

DefaultMolSize == <<450, 150>>

\* s with every non-overlapping occurrence of old removed, scanning from the
\* left as str.replace(old, '') does.
StartsWith(s, old) == Len(s) >= Len(old) /\ SubSeq(s, 1, Len(old)) = old

RECURSIVE Remove(_, _)
Remove(s, old) ==
    IF s = <<>> THEN <<>>
    ELSE IF StartsWith(s, old) THEN Remove(SubSeq(s, Len(old) + 1, Len(s)), old)
    ELSE <<Head(s)>> \o Remove(Tail(s), old)

\* s with its first occurrence of old removed.
RECURSIVE RemoveFirst(_, _)
RemoveFirst(s, old) ==
    IF s = <<>> THEN <<>>
    ELSE IF StartsWith(s, old) THEN SubSeq(s, Len(old) + 1, Len(s))
    ELSE <<Head(s)>> \o RemoveFirst(Tail(s), old)

\* render_svg with svg.replace('svg:', '', 1).
render_svg_first_only(svg) == RemoveFirst(svg, SvgPrefix)

\* def render_svg(svg): the text handed to SVG(...).
render_svg(svg) == Remove(svg, SvgPrefix)

\* ---------------------------------------------------------------- raw table
\* SMILES of the rows the raw table is drawn from: the molecule the notebook
\* prints, one with aromatic bonds, one with a triple bond, and one that
\* Chem.MolFromSmiles rejects (a ring that is never closed).
SmilesPrinted == <<"C", "C", "1", "=", "N", "C", "C", "C", "(", "C", ")", "O", "1">>

SmilesAromatic == <<"c", "1", "c", "c", "c", "c", "c", "1">>

SmilesTriple == <<"C", "#", "N">>

SmilesUnparsable == <<"C", "1", "C">>

RowSmiles == <<SmilesPrinted, SmilesAromatic, SmilesTriple, SmilesUnparsable>>

\* Row r of the catalogue: its SMILES and one value per property column, so
\* that every value names its row and its column.
Row(r) ==
    [smiles |-> RowSmiles[r],
     props |-> [n \in Range(get_qm9_label_names) |->
                  100 * r + Pos(get_qm9_label_names, n)]]

Rows == {Row(r) : r \in 1..Len(RowSmiles)}

\* The raw tables: every row of QM9 is another molecule.
RawTables ==
    {t \in UNION {[1..n -> Rows] : n \in 0..MaxRecords} :
        \A i, j \in DOMAIN t : i # j => t[i] # t[j]}

\* ----------------------------------------------------------------- the cells
\* The same cells with the inspection cell moved above the get_qm9 cell.
CellOrderInspectFirst ==
    <<"setup", "filepath", "label_names", "inspect", "get_qm9", "check",
      "draw_defs", "render", "interact", "mkdir", "def_save_svg",
      "export_svg", "def_save_png", "export_png">>

\* The code cells in the order the notebook holds them.
CellOrder ==
    <<"setup", "filepath", "label_names", "get_qm9", "check", "inspect",
      "draw_defs", "render", "interact", "mkdir", "def_save_svg",
      "export_svg", "def_save_png", "export_png">>

\* The global names a cell reads that it does not bind itself first.
Reads(c) ==
    CASE c \in {"filepath", "label_names", "get_qm9"} -> {"datasets"}
      [] c \in {"check", "inspect"} -> {"dataset", "dataset_smiles"}
      [] c = "render" ->
           {"dataset_smiles", "index", "Chem", "moltosvg", "render_svg"}
      [] c = "interact" ->
           {"dataset", "dataset_smiles", "Chem", "moltosvg", "render_svg"}
      [] c = "export_svg" ->
           {"os", "dirpath", "Chem", "dataset_smiles", "save_svg", "moltosvg"}
      [] c = "export_png" ->
           {"os", "dirpath", "Chem", "dataset_smiles", "save_png", "Draw"}
      [] OTHER -> {}

\* The get_qm9 call asking for the label 'A' alone.
Qm9LabelsOnlyA == <<"A">>

\* The arguments of the get_qm9 call.
Qm9Labels == None

Qm9ReturnSmiles == TRUE

\* os.path.join(dirpath, 'mol_{}.svg'.format(index)) and its png twin.
JoinPath(dirpath, i, ext) == <<dirpath, "mol", i, ext>>

OtherPath == <<"images", "other", 0, "txt">>

OldText == <<"o", "l", "d">>

VARIABLES
    args,        \* the arguments of a function applied on its own, outside
                 \* the notebook's cells
    raw,         \* the rows of the QM9 table get_qm9 reads
    kekFail,     \* the SMILES on which Chem.Kekulize raises
    pc,          \* how many cells of CellOrder have run, in order
    last,        \* the cell or callback that ran last ("" before the first)
    status,      \* "idle", "running", "ok", or "failed" once an exception
                 \* has left a cell
    err,         \* the exception that left the cell
    names,       \* the global names bound so far
    g,           \* the values bound to the names the cells use
    parse,       \* the progress of get_qm9 over the raw table
    counts,      \* the FAIL / SUCCESS / TOTAL line get_qm9 logs
    widget,      \* the slider interact() builds
    shown,       \* the text handed to SVG(...) by the last drawing
    fs,          \* the images directory and the files in it
    calls,       \* the library calls of the cell or callback that ran last
    threw        \* those of its operations that threw, caught or not

vars ==
    <<args, raw, kekFail, pc, last, status, err, names, g, parse, counts, widget,
      shown, fs, calls, threw>>

NoCounts == [logged |-> FALSE, fail |-> 0, success |-> 0, total |-> 0]

NoWidget == [live |-> FALSE, min |-> 0, max |-> 0, step |-> 0, value |-> 0]

\* No function is applied on its own while the cells run.
NoArgs ==
    [mol |-> NoneMol, molSize |-> DefaultMolSize, kekulize |-> TRUE, svg |-> <<>>]

\* The names of the kernel before any cell has run.
NoGlobals ==
    [label_names |-> <<>>, dataset |-> <<>>, dataset_smiles |-> <<>>,
     index |-> 0, atom |-> <<>>, adj |-> <<>>, labels |-> <<>>,
     smiles |-> <<>>, mol |-> NoneMol, svg |-> <<>>, dirpath |-> "",
     save_filepath |-> <<>>]

Init ==
    /\ args = NoArgs
    /\ raw \in RawTables
    /\ kekFail \in SUBSET {SmilesAromatic}
    /\ pc = 0
    /\ last = ""
    /\ status = "idle"
    /\ err = ""
    /\ names = {}
    /\ g = NoGlobals
    /\ parse = ParseIdle
    /\ counts = NoCounts
    /\ widget = NoWidget
    /\ shown = <<>>
    /\ fs \in {[dir |-> FALSE, files |-> <<>>],
               [dir |-> TRUE, files |-> <<>>],
               [dir |-> TRUE,
                files |-> (JoinPath("images", InspectIndex, "svg") :> OldText)
                          @@ (OtherPath :> OldText)]}
    /\ calls = <<>>
    /\ threw = <<>>

\* The kernel runs one cell at a time, top to bottom; the cell that ran last
\* in that order may be run again.  Nothing runs while a cell is still
\* running, nor after an exception has left a cell.
CanRun(c) ==
    /\ status # "failed"
    /\ ~parse.busy
    /\ Pos(CellOrder, c) \in {pc, pc + 1}

Bound(c) == Reads(c) \subseteq names

\* The cell c ends normally, having made the calls cl, of which th threw.
Done(c, cl, th) ==
    /\ pc' = Max(pc, Pos(CellOrder, c))
    /\ last' = c
    /\ status' = "ok"
    /\ err' = ""
    /\ calls' = cl
    /\ threw' = th

\* The exception e leaves the cell c.
Raise(c, e, cl, th) ==
    /\ pc' = pc
    /\ last' = c
    /\ status' = "failed"
    /\ err' = e
    /\ calls' = cl
    /\ threw' = th

\* A cell that reads a name nothing has bound raises NameError at once.
NameError(c) ==
    /\ Raise(c, "NameError", <<>>, <<>>)
    /\ UNCHANGED <<names, g, parse, counts, widget, shown, fs>>

\* ---- cell 1: imports, RDKit log level, logging.basicConfig
RunSetup ==
    /\ CanRun("setup")
    /\ names' = names \cup {"logging", "RDLogger", "datasets", "lg"}
    /\ Done("setup", <<"RDLogger.logger", "lg.setLevel", "logging.basicConfig">>, <<>>)
    /\ UNCHANGED <<args, raw, kekFail, g, parse, counts, widget, shown, fs>>

\* ---- cell 2: dataset_filepath = datasets.get_qm9_filepath()
RunFilepath ==
    /\ CanRun("filepath")
    /\ UNCHANGED <<args, raw, kekFail>>
    /\ IF ~Bound("filepath") THEN NameError("filepath")
       ELSE /\ names' = names \cup {"dataset_filepath"}
            /\ Done("filepath", <<"datasets.get_qm9_filepath">>, <<>>)
            /\ UNCHANGED <<g, parse, counts, widget, shown, fs>>

\* ---- cell 3: label_names = datasets.get_qm9_label_names()
RunLabelNames ==
    /\ CanRun("label_names")
    /\ UNCHANGED <<args, raw, kekFail>>
    /\ IF ~Bound("label_names") THEN NameError("label_names")
       ELSE /\ names' = names \cup {"label_names"}
            /\ g' = [g EXCEPT !.label_names = get_qm9_label_names]
            /\ Done("label_names", <<"datasets.get_qm9_label_names">>, <<>>)
            /\ UNCHANGED <<parse, counts, widget, shown, fs>>

\* ---- cell 4: preprocessor = GGNNPreprocessor()
\*              dataset, dataset_smiles = datasets.get_qm9(preprocessor,
\*                                          labels=None, return_smiles=True)
\* The call walks the raw table row by row; the cell ends, and binds the two
\* names, only when the walk has ended.
StartGetQm9 ==
    /\ CanRun("get_qm9")
    /\ UNCHANGED <<args, raw, kekFail>>
    /\ IF ~Bound("get_qm9") THEN NameError("get_qm9")
       ELSE /\ names' = names \cup {"GGNNPreprocessor", "preprocessor"}
            /\ parse' = [ParseIdle EXCEPT !.busy = TRUE]
            /\ last' = "get_qm9"
            /\ status' = "running"
            /\ err' = ""
            /\ calls' = <<"GGNNPreprocessor", "datasets.get_qm9">>
            /\ threw' = <<>>
            /\ UNCHANGED <<pc, g, counts, widget, shown, fs>>

ParseRecord ==
    /\ parse.busy
    /\ parse.cursor < Len(raw)
    /\ parse' = ParseRow(parse, raw[parse.cursor + 1], Qm9Labels)
    /\ UNCHANGED <<args, raw, kekFail, pc, last, status, err, names, g, counts,
                   widget, shown, fs, calls, threw>>

FinishGetQm9 ==
    /\ parse.busy
    /\ parse.cursor = Len(raw)
    /\ counts' = [logged |-> TRUE, fail |-> parse.fail,
                  success |-> parse.success, total |-> Len(raw)]
    /\ LET r == Qm9Result(parse, Qm9ReturnSmiles)
       IN  g' = [g EXCEPT !.dataset = r.dataset, !.dataset_smiles = r.smiles]
    /\ names' = names \cup {"dataset", "dataset_smiles"}
    /\ parse' = ParseIdle
    /\ Done("get_qm9", calls, <<>>)
    /\ UNCHANGED <<args, raw, kekFail, widget, shown, fs>>

\* ---- cell 5: print type and len of dataset and dataset_smiles
RunCheck ==
    /\ CanRun("check")
    /\ UNCHANGED <<args, raw, kekFail>>
    /\ IF ~Bound("check") THEN NameError("check")
       ELSE /\ Done("check", <<>>, <<>>)
            /\ UNCHANGED <<names, g, parse, counts, widget, shown, fs>>

\* The inspection cell writing through the arrays it unpacked: the first atom
\* of the record it read becomes 0 in the dataset too.
InspectBindsWritesThrough(gg, rec) ==
    [gg EXCEPT !.index = InspectIndex, !.atom = [rec.atom EXCEPT ![1] = 0],
               !.adj = rec.adj, !.labels = rec.labels,
               !.dataset[InspectIndex + 1].atom[1] = 0]

\* What the inspection cell binds once dataset[index] has been read.
InspectBinds(gg, rec) ==
    [gg EXCEPT !.index = InspectIndex, !.atom = rec.atom, !.adj = rec.adj,
               !.labels = rec.labels]

\* ---- cell 6: index = 7777; print dataset_smiles[index];
\*              atom, adj, labels = dataset[index]; print them
RunInspect ==
    /\ CanRun("inspect")
    /\ UNCHANGED <<args, raw, kekFail, parse, counts, widget, shown, fs>>
    /\ IF ~Bound("inspect") THEN NameError("inspect")
       ELSE IF ~InRange(g.dataset_smiles, InspectIndex)
         THEN /\ names' = names \cup {"index"}
              /\ g' = [g EXCEPT !.index = InspectIndex]
              /\ Raise("inspect", "IndexError", <<>>, <<"dataset_smiles[index]">>)
       ELSE IF ~InRange(g.dataset, InspectIndex)
         THEN /\ names' = names \cup {"index"}
              /\ g' = [g EXCEPT !.index = InspectIndex]
              /\ Raise("inspect", "IndexError", <<>>, <<"dataset[index]">>)
         ELSE /\ names' = names \cup {"index", "atom", "adj", "labels"}
              /\ g' = InspectBinds(g, GetItem(g.dataset, InspectIndex))
              /\ Done("inspect", <<>>, <<>>)

\* ---- cell 7: imports; def moltosvg; def render_svg
RunDrawDefs ==
    /\ CanRun("draw_defs")
    /\ names' = names \cup {"Chem", "IPythonConsole", "SVG", "rdDepictor",
                            "rdMolDraw2D", "moltosvg", "render_svg"}
    /\ Done("draw_defs", <<>>, <<>>)
    /\ UNCHANGED <<args, raw, kekFail, g, parse, counts, widget, shown, fs>>

\* ---- cell 8: smiles = dataset_smiles[index]
\*              mol = Chem.MolFromSmiles(dataset_smiles[index])
\*              svg = moltosvg(mol); render_svg(svg)
RunRender ==
    /\ CanRun("render")
    /\ UNCHANGED <<args, raw, kekFail, parse, counts, widget, fs>>
    /\ IF ~Bound("render") THEN NameError("render")
       ELSE IF ~InRange(g.dataset_smiles, g.index)
         THEN /\ Raise("render", "IndexError", <<>>, <<"dataset_smiles[index]">>)
              /\ UNCHANGED <<names, g, shown>>
         ELSE LET smi == GetItem(g.dataset_smiles, g.index)
                  m == MolFromSmiles(smi)
                  r == moltosvg(m, DefaultMolSize, TRUE, kekFail)
                  c == <<"Chem.MolFromSmiles">> \o r.calls
              IN  IF r.raised # ""
                    THEN /\ names' = names \cup {"smiles", "mol"}
                         /\ g' = [g EXCEPT !.smiles = smi, !.mol = m]
                         /\ Raise("render", r.raised, c, r.threw)
                         /\ UNCHANGED shown
                    ELSE /\ names' = names \cup {"smiles", "mol", "svg"}
                         /\ g' = [g EXCEPT !.smiles = smi, !.mol = m, !.svg = r.ret]
                         /\ shown' = render_svg(r.ret)
                         /\ Done("render", c \o <<"SVG">>, r.threw)

\* def show_dataset(index): its names are local, it returns what it draws.
show_dataset(i, dataset, dataset_smiles, kf) ==
    IF ~InRange(dataset_smiles, i)
      THEN [calls |-> <<>>, raised |-> "IndexError",
            threw |-> <<"dataset_smiles[index]">>, ret |-> <<>>]
    ELSE IF ~InRange(dataset, i)
      THEN [calls |-> <<>>, raised |-> "IndexError",
            threw |-> <<"dataset[index]">>, ret |-> <<>>]
    ELSE
      LET m == MolFromSmiles(GetItem(dataset_smiles, i))
          r == moltosvg(m, DefaultMolSize, TRUE, kf)
          c == <<"Chem.MolFromSmiles">> \o r.calls
      IN  IF r.raised # ""
            THEN [calls |-> c, raised |-> r.raised, threw |-> r.threw, ret |-> <<>>]
            ELSE [calls |-> c \o <<"SVG">>, raised |-> "", threw |-> r.threw,
                  ret |-> render_svg(r.ret)]

\* interact(..., index=(0, len(dataset), 1)): the slider reaches one past the
\* last index.
SliderForUpToLen(lo, hi, step) ==
    [live |-> TRUE, min |-> lo, max |-> hi + 1, step |-> step,
     value |-> lo + ((((hi + 1 - lo) \div step) \div 2) * step)]

\* The slider interact builds from the tuple (min, max, step): it starts in
\* the middle of its range.
SliderFor(lo, hi, step) ==
    [live |-> TRUE, min |-> lo, max |-> hi, step |-> step,
     value |-> lo + ((((hi - lo) \div step) \div 2) * step)]

\* The values a slider can be put on: min, min + step, ... up to max.
SliderValues(w) ==
    {w.min + (k * w.step) : k \in 0 .. ((w.max - w.min) \div w.step)}

\* ---- cell 9: def show_dataset;
\*              interact(show_dataset, index=(0, len(dataset) - 1, 1))
RunInteract ==
    /\ CanRun("interact")
    /\ UNCHANGED <<args, raw, kekFail, parse, counts, fs, g>>
    /\ IF ~Bound("interact") THEN NameError("interact")
       ELSE /\ names' = names \cup {"interact", "np", "show_dataset"}
            /\ IF Len(g.dataset) - 1 < 0
                 THEN /\ Raise("interact", "ValueError",
                               <<"np.set_printoptions", "interact">>, <<"interact">>)
                      /\ UNCHANGED <<widget, shown>>
                 ELSE LET w == SliderFor(0, Len(g.dataset) - 1, 1)
                          r == show_dataset(w.value, g.dataset, g.dataset_smiles, kekFail)
                          c == <<"np.set_printoptions", "interact">> \o r.calls
                      IN  /\ widget' = w
                          /\ IF r.raised # ""
                               THEN Raise("interact", r.raised, c, r.threw) /\ UNCHANGED shown
                               ELSE Done("interact", c, r.threw) /\ shown' = r.ret

\* ---- a move of the slider, by a drag, a click or a key, to another of its
\*      values: the widget calls show_dataset with the new value
Slide ==
    /\ status # "failed"
    /\ ~parse.busy
    /\ widget.live
    /\ \E v \in SliderValues(widget) \ {widget.value} :
         /\ widget' = [widget EXCEPT !.value = v]
         /\ LET r == show_dataset(v, g.dataset, g.dataset_smiles, kekFail)
            IN  /\ calls' = r.calls
                /\ threw' = r.threw
                /\ IF r.raised # ""
                     THEN status' = "failed" /\ err' = r.raised /\ UNCHANGED shown
                     ELSE status' = "ok" /\ err' = "" /\ shown' = r.ret
    /\ last' = "show_dataset"
    /\ UNCHANGED <<args, raw, kekFail, pc, names, g, parse, counts, fs>>

\* The directory cell without its test: os.mkdir(dirpath) on every run, which
\* raises FileExistsError when the directory is there.
RunMkdirAlways ==
    /\ CanRun("mkdir")
    /\ names' = names \cup {"os", "dirpath"}
    /\ g' = [g EXCEPT !.dirpath = "images"]
    /\ IF ~fs.dir
         THEN /\ fs' = [fs EXCEPT !.dir = TRUE]
              /\ Done("mkdir", <<"os.mkdir">>, <<>>)
         ELSE /\ fs' = fs
              /\ Raise("mkdir", "FileExistsError", <<"os.mkdir">>, <<"os.mkdir">>)
    /\ UNCHANGED <<args, raw, kekFail, parse, counts, widget, shown>>

\* ---- cell 10: dirpath = 'images'
\*               if not os.path.exists(dirpath): os.mkdir(dirpath)
RunMkdir ==
    /\ CanRun("mkdir")
    /\ names' = names \cup {"os", "dirpath"}
    /\ g' = [g EXCEPT !.dirpath = "images"]
    /\ IF ~fs.dir
         THEN /\ fs' = [fs EXCEPT !.dir = TRUE]
              /\ Done("mkdir", <<"os.path.exists", "os.mkdir">>, <<>>)
         ELSE /\ fs' = fs
              /\ Done("mkdir", <<"os.path.exists">>, <<>>)
    /\ UNCHANGED <<args, raw, kekFail, parse, counts, widget, shown>>

\* ---- cell 11: def save_svg
RunDefSaveSvg ==
    /\ CanRun("def_save_svg")
    /\ names' = names \cup {"save_svg"}
    /\ Done("def_save_svg", <<>>, <<>>)
    /\ UNCHANGED <<args, raw, kekFail, g, parse, counts, widget, shown, fs>>

\* open(filepath, "a") followed by fw.write(text): text follows what the
\* file held.
WriteFileAppends(files, filepath, text) ==
    [q \in DOMAIN files \cup {filepath} |->
       IF q # filepath THEN files[q]
       ELSE IF filepath \in DOMAIN files THEN files[filepath] \o text
       ELSE text]

\* open(filepath, "w") followed by fw.write(text): the file holds text.
WriteFile(files, filepath, text) ==
    [q \in DOMAIN files \cup {filepath} |-> IF q = filepath THEN text ELSE files[q]]

\* save_svg with the file written inside a try whose except passes.
save_svg_swallowing(mol, filepath, files, dir, io, kf) ==
    LET r == moltosvg(mol, DefaultMolSize, TRUE, kf)
    IN  IF r.raised # ""
          THEN [calls |-> r.calls, raised |-> r.raised, threw |-> r.threw,
                files |-> files]
        ELSE IF ~dir \/ ~io
          THEN [calls |-> r.calls \o <<"open">>, raised |-> "",
                threw |-> r.threw \o <<"open">>, files |-> files]
        ELSE [calls |-> r.calls \o <<"open", "fw.write">>, raised |-> "",
              threw |-> r.threw, files |-> WriteFile(files, filepath, r.ret)]

\* def save_svg(mol, filepath).  dir tells whether the directory of filepath
\* exists, io whether open() succeeds in it.
save_svg(mol, filepath, files, dir, io, kf) ==
    LET r == moltosvg(mol, DefaultMolSize, TRUE, kf)
    IN  IF r.raised # ""
          THEN [calls |-> r.calls, raised |-> r.raised, threw |-> r.threw,
                files |-> files]
        ELSE IF ~dir
          THEN [calls |-> r.calls \o <<"open">>, raised |-> "FileNotFoundError",
                threw |-> r.threw \o <<"open">>, files |-> files]
        ELSE IF ~io
          THEN [calls |-> r.calls \o <<"open">>, raised |-> "OSError",
                threw |-> r.threw \o <<"open">>, files |-> files]
        ELSE [calls |-> r.calls \o <<"open", "fw.write">>, raised |-> "",
              threw |-> r.threw, files |-> WriteFile(files, filepath, r.ret)]

\* ---- cell 12: index = 7777; save_filepath = os.path.join(dirpath, ...svg)
\*               mol = Chem.MolFromSmiles(dataset_smiles[index])
\*               save_svg(mol, save_filepath)
RunExportSvg ==
    /\ CanRun("export_svg")
    /\ UNCHANGED <<args, raw, kekFail, parse, counts, widget, shown>>
    /\ IF ~Bound("export_svg") THEN NameError("export_svg")
       ELSE
         LET path == JoinPath(g.dirpath, InspectIndex, "svg")
             g1 == [g EXCEPT !.index = InspectIndex, !.save_filepath = path]
         IN  IF ~InRange(g.dataset_smiles, InspectIndex)
               THEN /\ names' = names \cup {"index", "save_filepath"}
                    /\ g' = g1
                    /\ fs' = fs
                    /\ Raise("export_svg", "IndexError", <<"os.path.join">>,
                             <<"dataset_smiles[index]">>)
               ELSE \E io \in BOOLEAN :
                    LET m == MolFromSmiles(GetItem(g.dataset_smiles, InspectIndex))
                        r == save_svg(m, path, fs.files, fs.dir, io, kekFail)
                        c == <<"os.path.join", "Chem.MolFromSmiles">> \o r.calls
                    IN  /\ names' = names \cup {"index", "save_filepath", "mol"}
                        /\ g' = [g1 EXCEPT !.mol = m]
                        /\ fs' = [fs EXCEPT !.files = r.files]
                        /\ IF r.raised # "" THEN Raise("export_svg", r.raised, c, r.threw)
                           ELSE Done("export_svg", c, r.threw)

\* ---- cell 13: def save_png
RunDefSavePng ==
    /\ CanRun("def_save_png")
    /\ names' = names \cup {"Draw", "save_png"}
    /\ Done("def_save_png", <<>>, <<>>)
    /\ UNCHANGED <<args, raw, kekFail, g, parse, counts, widget, shown, fs>>

\* The raster Draw.MolToFile writes for a molecule at a size.
PngImage(mol, size) ==
    <<"PNG", SizeText(size[1]), SizeText(size[2])>> \o PathsFrom(mol, 1, 2)

\* save_png returning early when os.path.exists(filepath).
save_png_skipping(mol, filepath, size, files, dir, io) ==
    IF filepath \in DOMAIN files
      THEN [calls |-> <<"os.path.exists">>, raised |-> "", threw |-> <<>>,
            files |-> files]
    ELSE IF ~mol.valid \/ ~dir \/ ~io
      THEN [calls |-> <<"os.path.exists", "Draw.MolToFile">>, raised |-> "OSError",
            threw |-> <<"Draw.MolToFile">>, files |-> files]
    ELSE [calls |-> <<"os.path.exists", "Draw.MolToFile">>, raised |-> "",
          threw |-> <<>>, files |-> WriteFile(files, filepath, PngImage(mol, size))]

\* def save_png(mol, filepath, size=(600, 600)): Draw.MolToFile.
save_png(mol, filepath, size, files, dir, io) ==
    IF ~mol.valid
      THEN [calls |-> <<"Draw.MolToFile">>, raised |-> "AttributeError",
            threw |-> <<"Draw.MolToFile">>, files |-> files]
    ELSE IF ~dir
      THEN [calls |-> <<"Draw.MolToFile">>, raised |-> "FileNotFoundError",
            threw |-> <<"Draw.MolToFile">>, files |-> files]
    ELSE IF ~io
      THEN [calls |-> <<"Draw.MolToFile">>, raised |-> "OSError",
            threw |-> <<"Draw.MolToFile">>, files |-> files]
    ELSE [calls |-> <<"Draw.MolToFile">>, raised |-> "", threw |-> <<>>,
          files |-> WriteFile(files, filepath, PngImage(mol, size))]

\* ---- cell 14: index = 7777; save_filepath = os.path.join(dirpath, ...png)
\*               mol = Chem.MolFromSmiles(dataset_smiles[index])
\*               save_png(mol, save_filepath, size=(600, 600))
RunExportPng ==
    /\ CanRun("export_png")
    /\ UNCHANGED <<args, raw, kekFail, parse, counts, widget, shown>>
    /\ IF ~Bound("export_png") THEN NameError("export_png")
       ELSE
         LET path == JoinPath(g.dirpath, InspectIndex, "png")
             g1 == [g EXCEPT !.index = InspectIndex, !.save_filepath = path]
         IN  IF ~InRange(g.dataset_smiles, InspectIndex)
               THEN /\ names' = names \cup {"index", "save_filepath"}
                    /\ g' = g1
                    /\ fs' = fs
                    /\ Raise("export_png", "IndexError", <<"os.path.join">>,
                             <<"dataset_smiles[index]">>)
               ELSE \E io \in BOOLEAN :
                    LET m == MolFromSmiles(GetItem(g.dataset_smiles, InspectIndex))
                        r == save_png(m, path, <<600, 600>>, fs.files, fs.dir, io)
                        c == <<"os.path.join", "Chem.MolFromSmiles">> \o r.calls
                    IN  /\ names' = names \cup {"index", "save_filepath", "mol"}
                        /\ g' = [g1 EXCEPT !.mol = m]
                        /\ fs' = [fs EXCEPT !.files = r.files]
                        /\ IF r.raised # "" THEN Raise("export_png", r.raised, c, r.threw)
                           ELSE Done("export_png", c, r.threw)

Next ==
    \/ RunSetup
    \/ RunFilepath
    \/ RunLabelNames
    \/ StartGetQm9
    \/ ParseRecord
    \/ FinishGetQm9
    \/ RunCheck
    \/ RunInspect
    \/ RunDrawDefs
    \/ RunRender
    \/ RunInteract
    \/ Slide
    \/ RunMkdir
    \/ RunDefSaveSvg
    \/ RunExportSvg
    \/ RunDefSavePng
    \/ RunExportPng

Spec == Init /\ [][Next]_vars

\* ------------------------------------------------- moltosvg applied on its own
\* An aromatic ring of five carbons: it has no Kekule structure.
SmilesOddRing == <<"c", "1", "c", "c", "c", "c", "1">>

MaxConformers == 1

\* The molecule handles moltosvg is applied to: None, and the molecules of
\* the rows and of the odd ring (as Chem.MolFromSmiles(s, sanitize=False)
\* hands it back), without a conformer and with conformers of their own.
MolHandles ==
    {NoneMol}
    \cup {[MolFromSmiles(s) EXCEPT !.nconf = n] :
            s \in {SmilesPrinted, SmilesAromatic, SmilesTriple, SmilesOddRing},
            n \in 0..MaxConformers}

MolSizes == {DefaultMolSize, <<600, 600>>}

InitMoltosvg ==
    /\ args \in [mol : MolHandles, molSize : MolSizes, kekulize : BOOLEAN,
                  svg : {<<>>}]
    /\ raw = <<>>
    /\ kekFail \in SUBSET {SmilesAromatic}
    /\ pc = 0
    /\ last = ""
    /\ status = "idle"
    /\ err = ""
    /\ names = {"moltosvg"}
    /\ g = NoGlobals
    /\ parse = ParseIdle
    /\ counts = NoCounts
    /\ widget = NoWidget
    /\ shown = <<>>
    /\ fs = [dir |-> FALSE, files |-> <<>>]
    /\ calls = <<>>
    /\ threw = <<>>

\* svg = moltosvg(mol, molSize, kekulize)
CallMoltosvg ==
    /\ last = ""
    /\ LET r == moltosvg(args.mol, args.molSize, args.kekulize, kekFail)
       IN  /\ calls' = r.calls
           /\ threw' = r.threw
           /\ err' = r.raised
           /\ status' = IF r.raised # "" THEN "failed" ELSE "ok"
           /\ g' = [g EXCEPT !.svg = r.ret]
    /\ last' = "moltosvg"
    /\ UNCHANGED <<args, raw, kekFail, pc, names, parse, counts, widget, shown, fs>>

NextMoltosvg == CallMoltosvg

SpecMoltosvg == InitMoltosvg /\ [][NextMoltosvg]_vars

\* ----------------------------------------------- render_svg applied on its own
MaxText == 8

\* The characters of 'svg:'.
SvgChars == {"s", "v", "g", ":"}

\* Every text of at most MaxText of those characters.
Texts == UNION {[1..n -> SvgChars] : n \in 0..MaxText}

\* The texts moltosvg returns.
DrawingTexts ==
    {moltosvg(m, size, k, kf).ret :
        m \in MolHandles \ {NoneMol}, size \in MolSizes, k \in BOOLEAN,
        kf \in SUBSET {SmilesAromatic}}

InitRenderSvg ==
    /\ \E t \in Texts \cup DrawingTexts : args = [NoArgs EXCEPT !.svg = t]
    /\ raw = <<>>
    /\ kekFail = {}
    /\ pc = 0
    /\ last = ""
    /\ status = "idle"
    /\ err = ""
    /\ names = {"SVG", "render_svg"}
    /\ g = NoGlobals
    /\ parse = ParseIdle
    /\ counts = NoCounts
    /\ widget = NoWidget
    /\ shown = <<>>
    /\ fs = [dir |-> FALSE, files |-> <<>>]
    /\ calls = <<>>
    /\ threw = <<>>

\* render_svg(svg)
CallRenderSvg ==
    /\ last = ""
    /\ shown' = render_svg(args.svg)
    /\ calls' = <<"svg.replace", "SVG">>
    /\ status' = "ok"
    /\ last' = "render_svg"
    /\ UNCHANGED <<args, raw, kekFail, pc, err, names, g, parse, counts, widget,
                   fs, threw>>

NextRenderSvg == CallRenderSvg

SpecRenderSvg == InitRenderSvg /\ [][NextRenderSvg]_vars

\* ===================================================================== claims
\* The step (a)..(h), numbered 1..8, a cell or callback belongs to.
StepOf(c) ==
    CASE c = "setup" -> 1
      [] c = "filepath" -> 2
      [] c = "label_names" -> 3
      [] c = "get_qm9" -> 4
      [] c \in {"check", "inspect"} -> 5
      [] c \in {"draw_defs", "render"} -> 6
      [] c \in {"interact", "show_dataset"} -> 7
      [] OTHER -> 8

\* The cells and the callback that read dataset or dataset_smiles.
DatasetReaders ==
    {"check", "inspect", "render", "interact", "show_dataset", "export_svg",
     "export_png"}

Produced == {"dataset", "dataset_smiles"} \subseteq names

\* C1: the steps run one at a time in the order (a)..(h): a cell that runs
\* for the first time is the next one of the notebook and belongs to the same
\* step as the cell before it or to a later one; while preprocessing walks
\* the table nothing else runs and neither dataset nor dataset_smiles is
\* bound; and a step that reads dataset or dataset_smiles starts only when
\* both have been produced.
C1_StepsInOrder ==
    [][/\ pc' \in {pc, pc + 1}
       /\ (pc' = pc + 1 =>
             /\ last' = CellOrder[pc']
             /\ \A i \in 1..pc : StepOf(CellOrder[i]) <= StepOf(last'))
       /\ (parse.busy =>
             /\ last' = "get_qm9"
             /\ parse'.cursor = parse.cursor + 1 \/ ~parse'.busy
             /\ (parse'.busy => names' = names /\ g' = g /\ pc' = pc))
       /\ (last' \in DatasetReaders => Produced)
       /\ (("dataset" \in names') <=> ("dataset_smiles" \in names'))
       /\ err' # "NameError"]_vars

\* C1 witness: every cell of the notebook has run, the last one without an
\* exception, over a table that took more than one row to preprocess.
C1_Witness ==
    /\ pc = Len(CellOrder)
    /\ status = "ok"
    /\ Len(raw) >= 2
    /\ Produced

\* The rows of the raw table whose SMILES parses, in the table's order.
RowParses(row) == MolFromSmiles(row.smiles).valid

Kept(table) == SelectSeq(table, RowParses)

\* C2: in every record of the preprocessed dataset, every diagonal entry of
\* every one of its bond-category adjacency matrices is 1.
C2_DiagonalIsOne ==
    \A r \in 1..Len(g.dataset) :
      \A k \in 1..Len(g.dataset[r].adj) :
        \A i \in 1..Len(g.dataset[r].adj[k]) :
          g.dataset[r].adj[k][i][i] = 1

\* The atom sequence and the four matrices the notebook prints for the
\* molecule CC1=NCCC(C)O1.
PrintedAtom == <<6, 6, 7, 6, 6, 6, 6, 8>>

PrintedAdj ==
    << << <<0, 1, 0, 0, 0, 0, 0, 0>>,
          <<1, 0, 0, 0, 0, 0, 0, 1>>,
          <<0, 0, 0, 1, 0, 0, 0, 0>>,
          <<0, 0, 1, 0, 1, 0, 0, 0>>,
          <<0, 0, 0, 1, 0, 1, 0, 0>>,
          <<0, 0, 0, 0, 1, 0, 1, 1>>,
          <<0, 0, 0, 0, 0, 1, 0, 0>>,
          <<0, 1, 0, 0, 0, 1, 0, 0>> >>,
       << <<0, 0, 0, 0, 0, 0, 0, 0>>,
          <<0, 0, 1, 0, 0, 0, 0, 0>>,
          <<0, 1, 0, 0, 0, 0, 0, 0>>,
          <<0, 0, 0, 0, 0, 0, 0, 0>>,
          <<0, 0, 0, 0, 0, 0, 0, 0>>,
          <<0, 0, 0, 0, 0, 0, 0, 0>>,
          <<0, 0, 0, 0, 0, 0, 0, 0>>,
          <<0, 0, 0, 0, 0, 0, 0, 0>> >>,
       [i \in 1..8 |-> [j \in 1..8 |-> 0]],
       [i \in 1..8 |-> [j \in 1..8 |-> 0]] >>

\* The bond symbol a SMILES writes for each matrix of the stack, in order:
\* single, double, triple, aromatic.
C3_KindOf(k) == <<SINGLE, DOUBLE, TRIPLE, AROMATIC>>[k]

\* C3: in every record (atom, adj, labels) of the preprocessed dataset, adj
\* holds exactly 4 matrices, each N x N for N the length of the record's atom
\* sequence, and matrix k marks exactly the bonds of the k-th category
\* (single, double, triple, aromatic) of the record's molecule.
C3_AdjShape ==
    \A r \in 1..Len(g.dataset) :
      LET rec == g.dataset[r]
          N == Len(rec.atom)
          m == MolFromSmiles(g.dataset_smiles[r])
      IN  /\ Len(rec.adj) = 4
          /\ \A k \in 1..4 :
               /\ Len(rec.adj[k]) = N
               /\ \A i \in 1..N :
                    /\ Len(rec.adj[k][i]) = N
                    /\ \A j \in 1..N :
                         (rec.adj[k][i][j] = 1) <=>
                           (<<i, j, C3_KindOf(k)>> \in m.bonds
                              \/ <<j, i, C3_KindOf(k)>> \in m.bonds)

\* C3 witness: the inspection cell has unpacked a record of 8 atoms whose
\* four matrices are the ones the notebook prints.
C3_Witness ==
    /\ last = "inspect"
    /\ status = "ok"
    /\ g.atom = PrintedAtom
    /\ g.adj = PrintedAdj

\* The label names in the order the notebook prints them.
C4_Names ==
    <<"A", "B", "C", "mu", "alpha", "homo", "lumo", "gap", "r2", "zpve",
      "U0", "U", "H", "G", "Cv">>

\* C4: get_qm9 being called with labels=None, every record's label vector
\* has exactly 15 entries, entry i being the record's row's value of the i-th
\* name of the list get_qm9_label_names returned (A, B, C, mu, alpha, homo,
\* lumo, gap, r2, zpve, U0, U, H, G, Cv).
C4_LabelVector ==
    /\ "label_names" \in names => g.label_names = C4_Names
    /\ \A r \in 1..Len(g.dataset) :
         /\ Len(g.dataset[r].labels) = 15
         /\ \A i \in 1..15 :
              g.dataset[r].labels[i] = Kept(raw)[r].props[C4_Names[i]]

\* C4 witness: the inspection cell has unpacked a label vector of 15 entries
\* from a dataset of several records.
C4_Witness ==
    /\ last = "inspect"
    /\ status = "ok"
    /\ Len(g.labels) = 15
    /\ g.labels[15] = Kept(raw)[InspectIndex + 1].props["Cv"]

\* The number of heavy atoms a SMILES names.
HeavyAtoms(s) == Cardinality({i \in 1..Len(s) : s[i] \in {"C", "N", "O", "c"}})

\* C5: dataset and dataset_smiles are parallel: they have the same length,
\* and for every position i the tuple dataset[i] and the SMILES
\* dataset_smiles[i] come from the same row of the raw table, the atom
\* sequence holding one entry per heavy atom of that SMILES.
C5_Parallel ==
    /\ Len(g.dataset) = Len(g.dataset_smiles)
    /\ Produced =>
         /\ Len(g.dataset) = Len(Kept(raw))
         /\ \A i \in 1..Len(g.dataset) :
              /\ g.dataset_smiles[i] = Kept(raw)[i].smiles
              /\ g.dataset[i].labels[1] = Kept(raw)[i].props["A"]
              /\ Len(g.dataset[i].atom) = HeavyAtoms(g.dataset_smiles[i])

\* C5 witness: preprocessing has produced at least two records although a
\* row before the last of them failed.
C5_Witness ==
    /\ Produced
    /\ Len(g.dataset) >= 2
    /\ \E i \in 1..(Len(raw) - 1) : ~RowParses(raw[i]) /\ RowParses(raw[i + 1])

\* C6: preprocessing counts every raw row as exactly one of success or
\* failure: FAIL + SUCCESS = TOTAL, TOTAL is the number of raw rows, the
\* dataset holds exactly SUCCESS records, and with FAIL 0 it holds one record
\* per raw row.
C6_Counts ==
    /\ parse.fail + parse.success = parse.cursor
    /\ counts.logged =>
         /\ counts.fail + counts.success = counts.total
         /\ counts.total = Len(raw)
         /\ counts.success = Len(Kept(raw))
         /\ Produced
         /\ Len(g.dataset) = counts.success
         /\ (counts.fail = 0 => Len(g.dataset) = Len(raw))

\* C6 witness: preprocessing has logged its counts with a failure among them.
C6_Witness ==
    /\ counts.logged
    /\ counts.fail = 1
    /\ counts.success >= 2

\* C7: once preprocessing has produced them, no step changes the length or
\* any element of dataset or dataset_smiles.
C7_ReadOnly ==
    [][Produced =>
         /\ g'.dataset = g.dataset
         /\ g'.dataset_smiles = g.dataset_smiles]_vars

\* C7 witness: every cell has run, both export cells have written their
\* files, and the slider has been moved since.
C7_Witness ==
    /\ pc = Len(CellOrder)
    /\ last = "show_dataset"
    /\ status = "ok"
    /\ Len(g.dataset) >= 2
    /\ JoinPath("images", InspectIndex, "svg") \in DOMAIN fs.files
    /\ JoinPath("images", InspectIndex, "png") \in DOMAIN fs.files

\* C8 as stated: after preprocessing, whenever an operation of a step threw,
\* an exception has left the step.
C8_AnyFailureStops == (Produced /\ threw # <<>>) => status = "failed"

\* The operations of the last step that threw, Chem.Kekulize apart.
C8_Uncaught(th) == SelectSeq(th, LAMBDA op : op # "Chem.Kekulize")

C8_IsCall(op) == op \notin {"dataset_smiles[index]", "dataset[index]"}

\* C8 amended: after preprocessing, an operation other than Chem.Kekulize
\* that throws ends its step there and then: the exception leaves the cell,
\* the operation is the last one the step made and it threw once, the step
\* is not counted as run, and nothing runs afterwards.  A step fails for no
\* other reason.
C8_FailureStopsExceptKekulize ==
    [][/\ status # "failed"
       /\ (Produced' /\ C8_Uncaught(threw') # <<>>) =>
            /\ status' = "failed"
            /\ err' # ""
            /\ pc' = pc
            /\ Len(C8_Uncaught(threw')) = 1
            /\ threw'[Len(threw')] # "Chem.Kekulize"
            /\ C8_IsCall(threw'[Len(threw')]) =>
                 /\ calls' # <<>>
                 /\ calls'[Len(calls')] = threw'[Len(threw')]
       /\ (Produced' /\ status' = "failed") => C8_Uncaught(threw') # <<>>]_vars

\* C8 witness: open() failed in the SVG export cell and the exception left
\* the cell.
C8_Witness ==
    /\ Produced
    /\ last = "export_svg"
    /\ status = "failed"
    /\ err = "OSError"
    /\ threw[Len(threw)] = "open"

\* C9 as stated: a cell that is run again makes the library calls it made
\* before, whatever the calls made in between returned.
C9_SameCallsEveryRun ==
    [][(last' = last /\ last \in Range(CellOrder) /\ status = "ok" /\ status' = "ok")
         => calls' = calls]_vars

\* The calls moltosvg makes, given whether Chem.Kekulize threw.
C9_Drawing(kekThrew) ==
    <<"mol.ToBinary", "Chem.Mol", "Chem.Kekulize">>
    \o (IF kekThrew THEN <<"mol.ToBinary", "Chem.Mol">> ELSE <<>>)
    \o <<"mc.GetNumConformers", "rdDepictor.Compute2DCoords",
         "rdMolDraw2D.MolDraw2DSVG", "drawer.DrawMolecule",
         "drawer.FinishDrawing", "drawer.GetDrawingText">>

\* The calls of a step that ends normally, given whether the images
\* directory existed when it began and whether Chem.Kekulize threw in it.
C9_Expected(c, dirExisted, kekThrew) ==
    CASE c = "setup" -> <<"RDLogger.logger", "lg.setLevel", "logging.basicConfig">>
      [] c = "filepath" -> <<"datasets.get_qm9_filepath">>
      [] c = "label_names" -> <<"datasets.get_qm9_label_names">>
      [] c = "get_qm9" -> <<"GGNNPreprocessor", "datasets.get_qm9">>
      [] c = "render" -> <<"Chem.MolFromSmiles">> \o C9_Drawing(kekThrew) \o <<"SVG">>
      [] c = "interact" ->
           <<"np.set_printoptions", "interact", "Chem.MolFromSmiles">>
           \o C9_Drawing(kekThrew) \o <<"SVG">>
      [] c = "show_dataset" ->
           <<"Chem.MolFromSmiles">> \o C9_Drawing(kekThrew) \o <<"SVG">>
      [] c = "mkdir" ->
           IF dirExisted THEN <<"os.path.exists">>
           ELSE <<"os.path.exists", "os.mkdir">>
      [] c = "export_svg" ->
           <<"os.path.join", "Chem.MolFromSmiles">> \o C9_Drawing(kekThrew)
           \o <<"open", "fw.write">>
      [] c = "export_png" ->
           <<"os.path.join", "Chem.MolFromSmiles", "Draw.MolToFile">>
      [] OTHER -> <<>>

\* C9 amended: a step that ends normally makes a sequence of library calls
\* that is fixed but for two branches: os.mkdir is called only when
\* os.path.exists found no directory, and moltosvg copies the molecule a
\* second time only when Chem.Kekulize threw.  Nothing else that earlier
\* calls returned, the counts of preprocessing included, changes the calls.
C9_CallsFixedButForBranches ==
    [][status' = "ok" =>
         calls' = C9_Expected(last', fs.dir, "Chem.Kekulize" \in Range(threw'))]_vars

\* C9 witness: the PNG export cell has run normally after preprocessing
\* reported a failure.
C9_Witness ==
    /\ last = "export_png"
    /\ status = "ok"
    /\ counts.logged
    /\ counts.fail > 0

\* C10: when the SVG export cell has run, the file at its path holds exactly
\* the text moltosvg returns for the cell's molecule, whatever the file held
\* before and however often the cell has run, and the other files hold what
\* they held.
C10_SvgFileIsDrawing ==
    (last = "export_svg" /\ status = "ok") =>
      LET path == JoinPath("images", InspectIndex, "svg")
      IN  /\ g.save_filepath = path
          /\ g.mol = MolFromSmiles(GetItem(g.dataset_smiles, InspectIndex))
          /\ path \in DOMAIN fs.files
          /\ fs.files[path] = moltosvg(g.mol, DefaultMolSize, TRUE, kekFail).ret
          /\ fs.files[path] # <<>>
          /\ SubSeq(fs.files[path], 1, 9) = <<"<", "s", "v", "g", ":", "s", "v", "g", "450">>
          /\ OtherPath \in DOMAIN fs.files => fs.files[OtherPath] = OldText

\* C10 witness: the SVG export cell has run over a file that held other text.
C10_Witness ==
    /\ last = "export_svg"
    /\ status = "ok"
    /\ OtherPath \in DOMAIN fs.files
    /\ fs.files[JoinPath("images", InspectIndex, "svg")] # OldText

\* C11: while the slider of interact is live it runs from 0 to
\* len(dataset) - 1 in steps of 1, the value it passes to show_dataset is an
\* index of both dataset and dataset_smiles, and neither interact nor a move
\* of the slider ends in an IndexError.
C11_IndexInRange ==
    /\ widget.live =>
         /\ widget.min = 0
         /\ widget.max = Len(g.dataset) - 1
         /\ widget.step = 1
         /\ widget.value \in 0 .. (Len(g.dataset) - 1)
         /\ InRange(g.dataset, widget.value)
         /\ InRange(g.dataset_smiles, widget.value)
    /\ last \in {"interact", "show_dataset"} =>
         /\ err # "IndexError"
         /\ "dataset[index]" \notin Range(threw)
         /\ "dataset_smiles[index]" \notin Range(threw)

\* The slider has been moved onto the last index of a dataset of several
\* molecules, and show_dataset has drawn the molecule there.
C11_Witness ==
    /\ last = "show_dataset"
    /\ status = "ok"
    /\ widget.live
    /\ widget.max >= 2
    /\ widget.value = widget.max
    /\ shown # <<>>

\* The text drawn for the molecule as the caller holds it, untouched by
\* Chem.Kekulize, once it has coordinates.
C12_DrawingOfOriginal ==
    GetDrawingText([CopyMol(args.mol) EXCEPT !.nconf = Max(1, @)], args.molSize)

\* C12: moltosvg applied to a molecule with kekulize=True never lets a
\* failure of Chem.Kekulize out: it returns normally, having made a second
\* copy of the molecule right after the failed call, and the text it returns
\* is the drawing of the molecule as it was passed in; with kekulize=False
\* Chem.Kekulize is not among its calls.
C12_KekulizeFailureCaught ==
    (last = "moltosvg" /\ args.mol.valid) =>
        /\ args.kekulize /\ "Chem.Kekulize" \in Range(threw) =>
             /\ status = "ok"
             /\ err = ""
             /\ SubSeq(calls, 1, 5)
                  = <<"mol.ToBinary", "Chem.Mol", "Chem.Kekulize",
                      "mol.ToBinary", "Chem.Mol">>
             /\ g.svg = C12_DrawingOfOriginal
        /\ args.kekulize => err # "KekulizeException" /\ g.svg # <<>>
        /\ ~args.kekulize =>
             /\ "Chem.Kekulize" \notin Range(calls)
             /\ threw = <<>>
             /\ g.svg = C12_DrawingOfOriginal

\* moltosvg has been applied with kekulize=True to the ring that has no
\* Kekule structure, Chem.Kekulize threw, and the text came back.
C12_Witness ==
    /\ last = "moltosvg"
    /\ args.kekulize
    /\ args.mol.smiles = SmilesOddRing
    /\ threw = <<"Chem.Kekulize">>
    /\ status = "ok"
    /\ g.svg # <<>>

\* moltosvg has been applied with kekulize=False to a molecule with aromatic
\* bonds.
C12_WitnessNoKekulize ==
    /\ last = "moltosvg"
    /\ ~args.kekulize
    /\ args.mol.smiles = SmilesAromatic
    /\ status = "ok"

Contains(s, old) ==
    \E i \in 1..(Len(s) - Len(old) + 1) : SubSeq(s, i, i + Len(old) - 1) = old

\* C14 as stated: for every text render_svg is applied to, the text handed
\* to SVG holds no 'svg:', a text without 'svg:' is handed on as it is, and
\* stripping the text handed on once more gives the same text.
C14_StripsEveryText ==
    last = "render_svg" =>
        /\ ~Contains(shown, SvgPrefix)
        /\ ~Contains(args.svg, SvgPrefix) => shown = args.svg
        /\ render_svg(shown) = shown

\* C14 as amended: a text without 'svg:' is handed on as it is; for the
\* texts moltosvg returns the text handed to SVG holds no 'svg:' and
\* stripping it once more gives the same text; for any text, stripping the
\* result once more gives the same text exactly when the result holds no
\* 'svg:'.
C14_StripsOnePass ==
    last = "render_svg" =>
        /\ ~Contains(args.svg, SvgPrefix) => shown = args.svg
        /\ args.svg \in DrawingTexts =>
             /\ ~Contains(shown, SvgPrefix)
             /\ render_svg(shown) = shown
        /\ ~Contains(shown, SvgPrefix) <=> render_svg(shown) = shown

\* render_svg has been applied to a text moltosvg returned for a molecule
\* with bonds, and has taken 'svg:' out of it.
C14_Witness ==
    /\ last = "render_svg"
    /\ args.svg \in DrawingTexts
    /\ Contains(args.svg, SvgPrefix \o <<"path">>)
    /\ shown # args.svg
    /\ ~Contains(shown, SvgPrefix)
====
